---- MODULE Spec2Model ----
(***************************************************************************)
(* The adaptive Kalman pose filter of opentrack                            *)
(* (src/filter-kalman/kalman.cpp): KalmanFilter, KalmanProcessNoiseScaler, *)
(* DeadzoneFilter and the FTNoIR_Filter loop that drives them.             *)
(*                                                                         *)
(* Numbers.  The code computes in IEEE doubles.  Here a real x is the      *)
(* integer round(x * Scale): fixed point, every product and quotient       *)
(* rounded to the nearest unit as a double operation is rounded to the     *)
(* nearest double.  Indices are 1-based: code index i is i + 1 here.       *)
(***************************************************************************)
EXTENDS Integers, Sequences, FiniteSets, TLC

\* ------------------------------------------------------------------------
\* Fixed-point arithmetic
\* ------------------------------------------------------------------------

\* Units per 1.0: three decimal digits.
Scale == 10 ^ 3

Abs(x) == IF x < 0 THEN -x ELSE x

Min(a, b) == IF a < b THEN a ELSE b

Max(a, b) == IF a > b THEN a ELSE b

\* a * b, rounded to the nearest unit.  The operands are split so that no
\* intermediate product leaves the range of the result.
Mul(a, b) ==
    IF a = 0 \/ b = 0 THEN 0
    ELSE LET qa == a \div Scale
             ra == a % Scale
             qb == b \div Scale
             rb == b % Scale
         IN  qa * qb * Scale + qa * rb + ra * qb
               + ((ra * rb + (Scale \div 2)) \div Scale)

\* std::numeric_limits<double>::max(), in the model the largest number.
DBL_MAX == 2147483647

\* a / b for a >= 0 and b > 0, rounded to the nearest unit (long division).
\* A double holds every quotient the filter forms; a quotient beyond the
\* range of the model is held as the largest number, and a divisor too
\* large for the long division is taken in units of Scale.
Div(a, b) ==
    IF a = 0 THEN 0
    ELSE IF a \div b >= DBL_MAX \div Scale THEN DBL_MAX
    ELSE IF b > DBL_MAX \div Scale
         THEN (a + ((b \div Scale) \div 2)) \div (b \div Scale)
    ELSE (a \div b) * Scale + (((a % b) * Scale + (b \div 2)) \div b)

\* floor(sqrt(n)) of a natural number, by bisection on [lo, hi).
RECURSIVE ISqrtIn(_, _, _)
ISqrtIn(n, lo, hi) ==
    IF hi - lo <= 1 THEN lo
    ELSE LET mid == (lo + hi) \div 2
         IN  IF mid * mid <= n THEN ISqrtIn(n, mid, hi) ELSE ISqrtIn(n, lo, mid)

ISqrt(n) == ISqrtIn(n, 0, 46341)

\* std::sqrt of a fixed-point x >= 0: sqrt(x / Scale) * Scale = sqrt(x * Scale);
\* arguments too large for x * Scale take the root in two factors.
Sqrt(x) ==
    IF x <= 0 THEN 0
    ELSE IF x < 2000000 THEN ISqrt(x * Scale)
    ELSE ISqrt(x) * ISqrt(Scale)

\* pow(x, n) for a natural exponent n.
RECURSIVE Pow(_, _)
Pow(x, n) == IF n = 0 THEN Scale ELSE Mul(Pow(x, n - 1), x)

\* ------------------------------------------------------------------------
\* Vectors and matrices (Eigen): a matrix is a sequence of rows.
\* ------------------------------------------------------------------------

\* The pose has 6 components (x, y, z, yaw, pitch, roll); the state adds
\* their 6 velocities.
NUM_MEASUREMENT_DOF == 6

NUM_STATE_DOF == 2 * NUM_MEASUREMENT_DOF

Rows(A) == Len(A)

Cols(A) == Len(A[1])

\* The vector <<F(1), ..., F(n)>> and the r x c matrix of the F(i, j), as
\* tuples of computed elements.
Vec(n, F(_)) == [i \in 1..n |-> F(i)] \o <<>>

Mat(r, c, F(_, _)) == Vec(r, LAMBDA i : Vec(c, LAMBDA j : F(i, j)))

MatrixZero(r, c) == Mat(r, c, LAMBDA i, j : 0)

VectorZero(n) == Vec(n, LAMBDA i : 0)

VectorConstant(n, v) == Vec(n, LAMBDA i : v)

Transpose(A) == Mat(Cols(A), Rows(A), LAMBDA i, j : A[j][i])

RECURSIVE DotTo(_, _, _, _, _)
DotTo(A, B, i, j, k) ==
    IF k = 0 THEN 0
    ELSE IF A[i][k] = 0 THEN DotTo(A, B, i, j, k - 1)
    ELSE DotTo(A, B, i, j, k - 1) + Mul(A[i][k], B[k][j])

MatMul(A, B) == Mat(Rows(A), Cols(B), LAMBDA i, j : DotTo(A, B, i, j, Cols(A)))

MatAdd(A, B) == Mat(Rows(A), Cols(A), LAMBDA i, j : A[i][j] + B[i][j])

MatSub(A, B) == Mat(Rows(A), Cols(A), LAMBDA i, j : A[i][j] - B[i][j])

MatScale(c, A) == Mat(Rows(A), Cols(A), LAMBDA i, j : Mul(c, A[i][j]))

RECURSIVE MatVecTo(_, _, _, _)
MatVecTo(A, v, i, k) ==
    IF k = 0 THEN 0
    ELSE IF A[i][k] = 0 THEN MatVecTo(A, v, i, k - 1)
    ELSE MatVecTo(A, v, i, k - 1) + Mul(A[i][k], v[k])

MatVec(A, v) == Vec(Rows(A), LAMBDA i : MatVecTo(A, v, i, Cols(A)))

VecAdd(u, v) == Vec(Len(u), LAMBDA i : u[i] + v[i])

VecSub(u, v) == Vec(Len(u), LAMBDA i : u[i] - v[i])

\* v * v^T
Outer(v) == Mat(Len(v), Len(v), LAMBDA i, j : Mul(v[i], v[j]))

RECURSIVE TraceTo(_, _)
TraceTo(A, k) == IF k = 0 THEN 0 ELSE TraceTo(A, k - 1) + A[k][k]

Trace(A) == TraceTo(A, Rows(A))

Diagonal(A) == Vec(Rows(A), LAMBDA i : A[i][i])

\* v.head(n)
head(v, n) == SubSeq(v, 1, n)

IsDiagonal(A) ==
    \A i \in 1..Rows(A) : \A j \in 1..Cols(A) : i # j => A[i][j] = 0

\* Matrix::inverse().  Every matrix the filter inverts is diagonal with a
\* positive diagonal (InvertedMatrixIsDiagonal below), and the inverse of
\* such a matrix is the matrix of the reciprocals.
Inverse(A) ==
    Mat(Rows(A), Cols(A), LAMBDA i, j : IF i = j THEN Div(Scale, A[i][i]) ELSE 0)

\* ------------------------------------------------------------------------
\* settings (kalman.h)
\* ------------------------------------------------------------------------

\* seconds
adaptivity_window_length == Scale \div 4

deadzone_scale == 2 * Scale

deadzone_exponent == 2

process_sigma_pos == Scale \div 2

process_simga_rot == Scale \div 2

\* The slider positions the model uses: 1/2 (the default) and 3/4 of the range.
SliderValues == {Scale \div 2, (3 * Scale) \div 4}

\* settings::map_slider_value: the monotone map from a slider position in
\* [0, 1] to a noise variance, 10^(4v - 3), on the quarter positions.
map_slider_value(v) ==
    LET q == (4 * v) \div Scale
    IN  CASE q = 0 -> Scale \div 1000
          [] q = 1 -> Scale \div 100
          [] q = 2 -> Scale \div 10
          [] q = 3 -> Scale
          [] OTHER -> 10 * Scale

\* ------------------------------------------------------------------------
\* KalmanFilter
\* ------------------------------------------------------------------------

KalmanFilter_init ==
    [ measurement_noise_cov |-> MatrixZero(NUM_MEASUREMENT_DOF, NUM_MEASUREMENT_DOF),
      process_noise_cov     |-> MatrixZero(NUM_STATE_DOF, NUM_STATE_DOF),
      kalman_gain           |-> MatrixZero(NUM_STATE_DOF, NUM_MEASUREMENT_DOF),
      measurement_matrix    |-> MatrixZero(NUM_MEASUREMENT_DOF, NUM_STATE_DOF),
      state_cov             |-> MatrixZero(NUM_STATE_DOF, NUM_STATE_DOF),
      state_cov_prior       |-> MatrixZero(NUM_STATE_DOF, NUM_STATE_DOF),
      transition_matrix     |-> MatrixZero(NUM_STATE_DOF, NUM_STATE_DOF),
      state                 |-> VectorZero(NUM_STATE_DOF),
      state_prior           |-> VectorZero(NUM_STATE_DOF),
      innovation            |-> VectorZero(NUM_MEASUREMENT_DOF) ]

time_update(k) ==
    [k EXCEPT
       !.state_prior     = MatVec(k.transition_matrix, k.state),
       !.state_cov_prior =
           MatAdd(MatMul(MatMul(k.transition_matrix, k.state_cov),
                         Transpose(k.transition_matrix)),
                  k.process_noise_cov)]

measurement_update(k, measurement) ==
    LET tmp == MatAdd(MatMul(MatMul(k.measurement_matrix, k.state_cov_prior),
                             Transpose(k.measurement_matrix)),
                      k.measurement_noise_cov)
        tmp_inv == Inverse(tmp)
        gain == MatMul(MatMul(k.state_cov_prior, Transpose(k.measurement_matrix)),
                       tmp_inv)
        innov == VecSub(measurement, MatVec(k.measurement_matrix, k.state_prior))
    IN  [k EXCEPT
           !.kalman_gain = gain,
           !.innovation  = innov,
           !.state       = VecAdd(k.state_prior, MatVec(gain, innov)),
           !.state_cov   =
               MatSub(k.state_cov_prior,
                      MatMul(MatMul(gain, k.measurement_matrix), k.state_cov_prior))]

\* ------------------------------------------------------------------------
\* KalmanProcessNoiseScaler
\* ------------------------------------------------------------------------

KalmanProcessNoiseScaler_init ==
    [ base_cov                |-> MatrixZero(NUM_STATE_DOF, NUM_STATE_DOF),
      innovation_cov_estimate |-> MatrixZero(NUM_MEASUREMENT_DOF, NUM_MEASUREMENT_DOF) ]

\* The smallest and the largest scale factor (0.001 and 1000).
AlphaMin == Scale \div 1000

AlphaMax == 1000 * Scale

\* update() without line 82: the ratio is not clamped.
ScalerAlpha_unclamped(T1, T2) ==
    IF T2 > 0 /\ T1 > 0 THEN Sqrt(Div(T1, T2)) ELSE AlphaMin

\* The scale factor of update() from the two traces.
ScalerAlpha(T1, T2) ==
    IF T2 > 0 /\ T1 > 0
    THEN Min(AlphaMax, Max(AlphaMin, Sqrt(Div(T1, T2))))
    ELSE AlphaMin

\* update(kf, dt): the scaler and the filter after the call, with the scale
\* factor alpha that was used.
KalmanProcessNoiseScaler_update(sc, k, dt) ==
    LET ddT == Outer(k.innovation)
        f == Div(dt, dt + adaptivity_window_length)
        estimate == MatAdd(MatScale(f, ddT),
                           MatScale(Scale - f, sc.innovation_cov_estimate))
        T1 == Trace(MatSub(estimate, k.measurement_noise_cov))
        T2 == Trace(MatMul(MatMul(k.measurement_matrix, k.state_cov_prior),
                           Transpose(k.measurement_matrix)))
        alpha == ScalerAlpha(T1, T2)
    IN  [ scaler |-> [sc EXCEPT !.innovation_cov_estimate = estimate],
          kf     |-> [k EXCEPT !.process_noise_cov = MatScale(alpha, sc.base_cov)],
          alpha  |-> alpha ]

\* ------------------------------------------------------------------------
\* DeadzoneFilter
\* ------------------------------------------------------------------------

\* DeadzoneFilter::filter with line 103 holding the axis instead of passing
\* the input through.
DeadzoneAxis_holds(dz, last, in) ==
    IF dz > 0
    THEN LET delta == in - last
             f == Pow(Div(Abs(delta), dz), deadzone_exponent)
             response == Mul(Div(f, f + Scale), delta)
         IN  last + response
    ELSE last

\* One axis of DeadzoneFilter::filter.  abs is the floating-point overload;
\* with dz = 0 it is not called and with delta = 0 every overload returns 0.
DeadzoneAxis(dz, last, in) ==
    IF dz > 0
    THEN LET delta == in - last
             f == Pow(Div(Abs(delta), dz), deadzone_exponent)
             response == Mul(Div(f, f + Scale), delta)
         IN  last + response
    ELSE in

\* filter(input): the filter after the call and the pose it returns.
DeadzoneFilter_filter(d, input) ==
    LET out == Vec(Len(input), LAMBDA i :
                   DeadzoneAxis(d.dz_size[i], d.last_output[i], input[i]))
    IN  [ dz_filter |-> [d EXCEPT !.last_output = out], out |-> out ]

\* DeadzoneFilter::reset (kalman.h): the deadzone state is cleared.
DeadzoneFilter_reset(d) ==
    [ last_output |-> VectorZero(NUM_MEASUREMENT_DOF),
      dz_size     |-> VectorZero(NUM_MEASUREMENT_DOF) ]

\* ------------------------------------------------------------------------
\* FTNoIR_Filter
\* ------------------------------------------------------------------------

\* The position axes (code 0..2); the rotation axes (code 3..5) follow.
PosAxes == 1..3

fill_transition_matrix(k, dt) ==
    [k EXCEPT !.transition_matrix =
        Mat(NUM_STATE_DOF, NUM_STATE_DOF, LAMBDA i, j :
            IF i <= NUM_MEASUREMENT_DOF /\ j = i + NUM_MEASUREMENT_DOF
            THEN dt ELSE k.transition_matrix[i][j])]

fill_process_noise_cov_matrix(target, dt) ==
    LET sigma_pos == process_sigma_pos
        sigma_angle == process_simga_rot
        a_pos == Mul(Mul(sigma_pos, sigma_pos), dt)
        a_ang == Mul(Mul(sigma_angle, sigma_angle), dt)
        b == 20 * Scale
        c == Scale
        n == NUM_MEASUREMENT_DOF
        a(i) == IF i \in PosAxes THEN a_pos ELSE a_ang
    IN  Mat(NUM_STATE_DOF, NUM_STATE_DOF, LAMBDA i, j :
            CASE i <= n /\ j = i          -> a(i)
              [] i <= n /\ j = i + n      -> Mul(a(i), c)
              [] i > n /\ j = i - n       -> Mul(a(j), c)
              [] i > n /\ j = i           -> Mul(a(i - n), b)
              [] OTHER                    -> target[i][j])

\* The nominal interval reset() builds the matrices for: 0.03 s.
NominalDt == (3 * Scale) \div 100

\* reset() without lines 196-198: last_input survives.
reset_keeps_last_input(self, sv) ==
    LET k0 == KalmanFilter_init
        n == NUM_MEASUREMENT_DOF
        k1 == [k0 EXCEPT
                 !.transition_matrix =
                     Mat(NUM_STATE_DOF, NUM_STATE_DOF, LAMBDA i, j :
                         IF i = j THEN Scale ELSE k0.transition_matrix[i][j]),
                 !.measurement_matrix =
                     Mat(n, NUM_STATE_DOF, LAMBDA i, j :
                         IF i = j THEN Scale ELSE k0.measurement_matrix[i][j])]
        noise_variance_position == map_slider_value(sv.noise_pos_slider_value)
        noise_variance_angle == map_slider_value(sv.noise_rot_slider_value)
        k2 == [k1 EXCEPT
                 !.measurement_noise_cov =
                     Mat(n, n, LAMBDA i, j :
                         IF i # j THEN k1.measurement_noise_cov[i][j]
                         ELSE IF i \in PosAxes THEN noise_variance_position
                         ELSE noise_variance_angle)]
        k3 == fill_transition_matrix(k2, NominalDt)
        base == fill_process_noise_cov_matrix(
                    KalmanProcessNoiseScaler_init.base_cov, NominalDt)
    IN  [ kf |-> [k3 EXCEPT !.process_noise_cov = base, !.state_cov = base],
          kf_adaptive_process_noise_cov |->
              [KalmanProcessNoiseScaler_init EXCEPT !.base_cov = base],
          last_input |-> self.last_input,
          first_run |-> TRUE,
          dt_since_last_input |-> 0,
          prev_slider_pos |-> <<sv.noise_pos_slider_value, sv.noise_rot_slider_value>>,
          minimal_state_var |-> VectorConstant(n, DBL_MAX),
          dz_filter |-> DeadzoneFilter_reset(self.dz_filter),
          timer |-> self.timer ]

\* reset() on the filter object self under the settings sv.
reset(self, sv) ==
    LET k0 == KalmanFilter_init
        n == NUM_MEASUREMENT_DOF
        k1 == [k0 EXCEPT
                 !.transition_matrix =
                     Mat(NUM_STATE_DOF, NUM_STATE_DOF, LAMBDA i, j :
                         IF i = j THEN Scale ELSE k0.transition_matrix[i][j]),
                 !.measurement_matrix =
                     Mat(n, NUM_STATE_DOF, LAMBDA i, j :
                         IF i = j THEN Scale ELSE k0.measurement_matrix[i][j])]
        noise_variance_position == map_slider_value(sv.noise_pos_slider_value)
        noise_variance_angle == map_slider_value(sv.noise_rot_slider_value)
        k2 == [k1 EXCEPT
                 !.measurement_noise_cov =
                     Mat(n, n, LAMBDA i, j :
                         IF i # j THEN k1.measurement_noise_cov[i][j]
                         ELSE IF i \in PosAxes THEN noise_variance_position
                         ELSE noise_variance_angle)]
        k3 == fill_transition_matrix(k2, NominalDt)
        base == fill_process_noise_cov_matrix(
                    KalmanProcessNoiseScaler_init.base_cov, NominalDt)
    IN  [ kf |-> [k3 EXCEPT !.process_noise_cov = base, !.state_cov = base],
          kf_adaptive_process_noise_cov |->
              [KalmanProcessNoiseScaler_init EXCEPT !.base_cov = base],
          last_input |-> VectorZero(n),
          first_run |-> TRUE,
          dt_since_last_input |-> 0,
          prev_slider_pos |-> <<sv.noise_pos_slider_value, sv.noise_rot_slider_value>>,
          minimal_state_var |-> VectorConstant(n, DBL_MAX),
          dz_filter |-> DeadzoneFilter_reset(self.dz_filter),
          timer |-> self.timer ]

\* The body of do_kalman_filter for a new measurement, from the scaler's
\* update u on: time_update, measurement_update, and the pose returned.
kalman_step(self, u, input) ==
    LET k3 == measurement_update(time_update(u.kf), input)
    IN  [ self |-> [self EXCEPT !.kf = k3,
                                !.kf_adaptive_process_noise_cov = u.scaler],
          out  |-> head(k3.state, NUM_MEASUREMENT_DOF),
          alpha |-> u.alpha ]

\* do_kalman_filter with time_update outside the if: the filter predicts on
\* every tick.
do_kalman_filter_predicts(self, input, dt, new_input) ==
    IF new_input
    THEN LET dt1 == self.dt_since_last_input
             k1 == fill_transition_matrix(self.kf, dt1)
             sc1 == [self.kf_adaptive_process_noise_cov EXCEPT
                       !.base_cov = fill_process_noise_cov_matrix(@, dt1)]
         IN  kalman_step(self, KalmanProcessNoiseScaler_update(sc1, k1, dt1), input)
    ELSE [ self |-> [self EXCEPT !.kf = time_update(@)],
           out |-> head(self.kf.state, NUM_MEASUREMENT_DOF),
           alpha |-> 0 ]

\* do_kalman_filter without line 151: the step uses the interval of the tick.
do_kalman_filter_tick_dt(self, input, dt, new_input) ==
    IF new_input
    THEN LET k1 == fill_transition_matrix(self.kf, dt)
             sc1 == [self.kf_adaptive_process_noise_cov EXCEPT
                       !.base_cov = fill_process_noise_cov_matrix(@, dt)]
         IN  kalman_step(self, KalmanProcessNoiseScaler_update(sc1, k1, dt), input)
    ELSE [ self |-> self,
           out |-> head(self.kf.state, NUM_MEASUREMENT_DOF),
           alpha |-> 0 ]

\* do_kalman_filter with lines 154 and 155 exchanged: time_update runs before
\* the scaler's update.
do_kalman_filter_scaler_late(self, input, dt, new_input) ==
    IF new_input
    THEN LET dt1 == self.dt_since_last_input
             k1 == time_update(fill_transition_matrix(self.kf, dt1))
             sc1 == [self.kf_adaptive_process_noise_cov EXCEPT
                       !.base_cov = fill_process_noise_cov_matrix(@, dt1)]
             u == KalmanProcessNoiseScaler_update(sc1, k1, dt1)
             k3 == measurement_update(u.kf, input)
         IN  [ self |-> [self EXCEPT !.kf = k3,
                                     !.kf_adaptive_process_noise_cov = u.scaler],
               out  |-> head(k3.state, NUM_MEASUREMENT_DOF),
               alpha |-> u.alpha ]
    ELSE [ self |-> self,
           out |-> head(self.kf.state, NUM_MEASUREMENT_DOF),
           alpha |-> 0 ]

\* do_kalman_filter(input, dt, new_input): the filter object after the call,
\* the pose returned and the scale factor used (0 when no step ran).
do_kalman_filter(self, input, dt, new_input) ==
    IF new_input
    THEN LET dt1 == self.dt_since_last_input
             k1 == fill_transition_matrix(self.kf, dt1)
             sc1 == [self.kf_adaptive_process_noise_cov EXCEPT
                       !.base_cov = fill_process_noise_cov_matrix(@, dt1)]
         IN  kalman_step(self, KalmanProcessNoiseScaler_update(sc1, k1, dt1), input)
    ELSE [ self |-> self,
           out |-> head(self.kf.state, NUM_MEASUREMENT_DOF),
           alpha |-> 0 ]

\* What a filter() call reports besides the filter object (self) it leaves:
\* whether it wrote the output buffer and with what, whether it reset, whether
\* it ran past the warm-up return, new_input, the pose handed to the deadzone
\* filter, the sample interval and the scale factor of the Kalman step.

\* filter(), the end: the deadzone filter has returned d; lines 254-260.
filter_finish(s2, d, minvar, r, input, new_input, changed, kalman_dt) ==
    [ self |-> [s2 EXCEPT
                  !.minimal_state_var = minvar,
                  !.dz_filter = d.dz_filter,
                  !.dt_since_last_input = IF new_input THEN 0 ELSE @,
                  !.last_input = IF new_input THEN input ELSE @],
      wrote |-> TRUE, output |-> d.out,
      reset |-> changed, running |-> TRUE, new_input |-> new_input,
      raw |-> r.out, kalman_dt |-> kalman_dt, alpha |-> r.alpha ]

\* The deadzone block without the cwiseMin of line 251: minimal_state_var
\* follows the variance.
filter_deadzone_no_min(r, input, new_input, changed, kalman_dt) ==
    LET s2 == r.self
        variance == head(Diagonal(s2.kf.state_cov), NUM_MEASUREMENT_DOF)
        dz_size == Vec(NUM_MEASUREMENT_DOF, LAMBDA i :
                       Mul(Sqrt(variance[i] - variance[i]), deadzone_scale))
    IN  filter_finish(s2,
                      DeadzoneFilter_filter(
                          [s2.dz_filter EXCEPT !.dz_size = dz_size], r.out),
                      variance, r, input, new_input, changed, kalman_dt)

\* filter(), after do_kalman_filter has returned r: the deadzone block,
\* lines 242-254.
filter_deadzone(r, input, new_input, changed, kalman_dt) ==
    LET s2 == r.self
        variance == head(Diagonal(s2.kf.state_cov), NUM_MEASUREMENT_DOF)
        minvar == Vec(NUM_MEASUREMENT_DOF, LAMBDA i :
                      Min(s2.minimal_state_var[i], variance[i]))
        dz_size == Vec(NUM_MEASUREMENT_DOF, LAMBDA i :
                       Mul(Sqrt(variance[i] - Min(s2.minimal_state_var[i], variance[i])),
                           deadzone_scale))
    IN  filter_finish(s2,
                      DeadzoneFilter_filter(
                          [s2.dz_filter EXCEPT !.dz_size = dz_size], r.out),
                      minvar, r, input, new_input, changed, kalman_dt)

\* A running tick that takes every tick for a new measurement.
filter_running_always_new(s0, input, changed) ==
    LET dt == s0.timer
        s1 == [s0 EXCEPT !.dt_since_last_input = @ + dt, !.timer = 0]
    IN  filter_deadzone(do_kalman_filter(s1, input, dt, TRUE),
                        input, TRUE, changed, s1.dt_since_last_input)

\* filter(), a running tick on the object s0: lines 231-240 and on.
filter_running(s0, input, changed) ==
    LET new_input == \E i \in 1..NUM_MEASUREMENT_DOF : input[i] # s0.last_input[i]
        dt == s0.timer
        s1 == [s0 EXCEPT !.dt_since_last_input = @ + dt, !.timer = 0]
    IN  filter_deadzone(do_kalman_filter(s1, input, dt, new_input),
                        input, new_input, changed, s1.dt_since_last_input)

\* The warm-up branch storing its input in last_input.
filter_first_run_stores_input(s0, input, changed) ==
    IF s0.first_run
    THEN [ self |-> [s0 EXCEPT !.timer = 0, !.first_run = FALSE,
                               !.last_input = input],
           wrote |-> FALSE, output |-> <<>>,
           reset |-> changed, running |-> FALSE, new_input |-> FALSE,
           raw |-> <<>>, kalman_dt |-> 0, alpha |-> 0 ]
    ELSE filter_running(s0, input, changed)

\* The warm-up branch without the return of line 228: the first call runs a
\* tick with the interval 0.
filter_first_run_no_return(s0, input, changed) ==
    filter_running(IF s0.first_run
                   THEN [s0 EXCEPT !.timer = 0, !.first_run = FALSE]
                   ELSE s0,
                   input, changed)

\* filter(), after the slider check, on the object s0: lines 223-229 and on.
filter_first_run(s0, input, changed) ==
    IF s0.first_run
    THEN [ self |-> [s0 EXCEPT !.timer = 0, !.first_run = FALSE],
           wrote |-> FALSE, output |-> <<>>,
           reset |-> changed, running |-> FALSE, new_input |-> FALSE,
           raw |-> <<>>, kalman_dt |-> 0, alpha |-> 0 ]
    ELSE filter_running(s0, input, changed)

\* Whether the sliders differ from those the last reset captured.
sliders_changed(self, sv) ==
    \/ self.prev_slider_pos[1] # sv.noise_pos_slider_value
    \/ self.prev_slider_pos[2] # sv.noise_rot_slider_value

\* filter(input_, output_) on the filter object self under the settings sv.
filter(self, sv, input) ==
    filter_first_run(IF sliders_changed(self, sv) THEN reset(self, sv) ELSE self,
                     input, sliders_changed(self, sv))

\* ------------------------------------------------------------------------
\* The state machine
\* ------------------------------------------------------------------------

VARIABLES
    kf,                             \* FTNoIR_Filter::kf
    kf_adaptive_process_noise_cov,  \* the KalmanProcessNoiseScaler
    dz_filter,                      \* the DeadzoneFilter
    last_input,
    first_run,
    dt_since_last_input,
    prev_slider_pos,
    minimal_state_var,
    timer,              \* seconds since timer.start() (since construction before it)
    s,                  \* the settings: the two noise slider values
    output,             \* the caller's output buffer
    call,               \* what the latest filter() call did (see filter), its
                        \* input and the dz_size it found
    hist,               \* the inputs of the filter() calls since the last reset
    ncalls,             \* the number of filter() calls so far
    since_meas,         \* clock time since the latest new-measurement tick, or
                        \* since the warm-up tick if there was none after it
    ksteps              \* the number of Kalman steps since the last reset

object == <<kf, kf_adaptive_process_noise_cov, dz_filter, last_input, first_run,
            dt_since_last_input, prev_slider_pos, minimal_state_var, timer>>

vars == <<object, s, output, call, hist, ncalls, since_meas, ksteps>>

\* The filter object as one record.
Self ==
    [ kf |-> kf,
      kf_adaptive_process_noise_cov |-> kf_adaptive_process_noise_cov,
      dz_filter |-> dz_filter,
      last_input |-> last_input,
      first_run |-> first_run,
      dt_since_last_input |-> dt_since_last_input,
      prev_slider_pos |-> prev_slider_pos,
      minimal_state_var |-> minimal_state_var,
      timer |-> timer ]

\* The filter object before the constructor body runs.
Blank ==
    [ kf |-> KalmanFilter_init,
      kf_adaptive_process_noise_cov |-> KalmanProcessNoiseScaler_init,
      dz_filter |-> [ last_output |-> VectorZero(NUM_MEASUREMENT_DOF),
                      dz_size |-> VectorZero(NUM_MEASUREMENT_DOF) ],
      last_input |-> VectorZero(NUM_MEASUREMENT_DOF),
      first_run |-> FALSE,
      dt_since_last_input |-> 0,
      prev_slider_pos |-> <<0, 0>>,
      minimal_state_var |-> VectorZero(NUM_MEASUREMENT_DOF),
      timer |-> 0 ]

\* FTNoIR_Filter::FTNoIR_Filter() under the settings sv.
FTNoIR_Filter(sv) == reset(Blank, sv)

Settings == [noise_pos_slider_value : SliderValues,
             noise_rot_slider_value : SliderValues]

\* The poses the tracker delivers: x (code index 0) and yaw (code index 3)
\* vary, the other components stay 0.
Pose(x, yaw) ==
    Vec(NUM_MEASUREMENT_DOF, LAMBDA i :
        IF i = 1 THEN x ELSE IF i = 4 THEN yaw ELSE 0)

Poses == {Pose(0, 0), Pose(Scale, 0), Pose(Scale, -3 * Scale)}

\* The clock advances in steps of 0.1 s.
TimeStep == Scale \div 10

\* At most 0.1 s pass between two filter() calls.
MaxElapsed == TimeStep

\* A run makes at most this many filter() calls.
MaxCalls == 4

NoCall == [ reset |-> FALSE, running |-> FALSE, new_input |-> FALSE,
            wrote |-> FALSE, input |-> <<>>, raw |-> <<>>,
            kalman_dt |-> 0, alpha |-> 0,
            dz_before |-> VectorZero(NUM_MEASUREMENT_DOF) ]

SetObject(o) ==
    /\ kf' = o.kf
    /\ kf_adaptive_process_noise_cov' = o.kf_adaptive_process_noise_cov
    /\ dz_filter' = o.dz_filter
    /\ last_input' = o.last_input
    /\ first_run' = o.first_run
    /\ dt_since_last_input' = o.dt_since_last_input
    /\ prev_slider_pos' = o.prev_slider_pos
    /\ minimal_state_var' = o.minimal_state_var
    /\ timer' = o.timer

Init ==
    /\ s \in Settings
    /\ \E o \in {FTNoIR_Filter(s)} :
          /\ kf = o.kf
          /\ kf_adaptive_process_noise_cov = o.kf_adaptive_process_noise_cov
          /\ dz_filter = o.dz_filter
          /\ last_input = o.last_input
          /\ first_run = o.first_run
          /\ dt_since_last_input = o.dt_since_last_input
          /\ prev_slider_pos = o.prev_slider_pos
          /\ minimal_state_var = o.minimal_state_var
          /\ timer = o.timer
    /\ output = VectorZero(NUM_MEASUREMENT_DOF)
    /\ call = NoCall
    /\ hist = <<>>
    /\ ncalls = 0
    /\ since_meas = 0
    /\ ksteps = 0

\* One call filter(input, output), of at most max calls.
FilterN(input, max) ==
    /\ ncalls < max
    /\ ncalls' = ncalls + 1
    /\ \E r \in {filter(Self, s, input)} :
        /\ SetObject(r.self)
        /\ output' = IF r.wrote THEN r.output ELSE output
        /\ call' = [ reset |-> r.reset, running |-> r.running,
                     new_input |-> r.new_input, wrote |-> r.wrote,
                     input |-> input, raw |-> r.raw,
                     kalman_dt |-> r.kalman_dt, alpha |-> r.alpha,
                     dz_before |-> dz_filter.dz_size ]
        /\ hist' = Append(IF r.reset THEN <<>> ELSE hist, input)
        /\ since_meas' = IF r.new_input \/ ~r.running THEN 0 ELSE since_meas
        /\ ksteps' = (IF r.reset THEN 0 ELSE ksteps)
                        + (IF r.new_input THEN 1 ELSE 0)
        /\ UNCHANGED s

Filter(input) == FilterN(input, MaxCalls)

\* The clock advances by one step.
Advance ==
    /\ timer + TimeStep <= MaxElapsed
    /\ timer' = timer + TimeStep
    /\ since_meas' = since_meas + TimeStep
    /\ UNCHANGED <<kf, kf_adaptive_process_noise_cov, dz_filter, last_input,
                   first_run, dt_since_last_input, prev_slider_pos,
                   minimal_state_var, s, output, call, hist, ncalls, ksteps>>

\* The user moves the position noise slider.
SetNoisePos(v) ==
    /\ v # s.noise_pos_slider_value
    /\ s' = [s EXCEPT !.noise_pos_slider_value = v]
    /\ UNCHANGED <<object, output, call, hist, ncalls, since_meas, ksteps>>

\* The user moves the rotation noise slider.
SetNoiseRot(v) ==
    /\ v # s.noise_rot_slider_value
    /\ s' = [s EXCEPT !.noise_rot_slider_value = v]
    /\ UNCHANGED <<object, output, call, hist, ncalls, since_meas, ksteps>>

Next ==
    \/ \E p \in Poses : Filter(p)
    \/ Advance
    \/ \E v \in SliderValues : SetNoisePos(v)
    \/ \E v \in SliderValues : SetNoiseRot(v)

Spec == Init /\ [][Next]_vars

\* ------------------------------------------------------------------------
\* The filter under a constant input
\* ------------------------------------------------------------------------

\* A run under constant input makes at most this many filter() calls.
MaxConstCalls == 6

\* filter() with the pose of the first call, a non-zero time after the
\* previous call.
FilterConst(p) ==
    /\ hist # <<>> => p = hist[1]
    /\ first_run \/ timer > 0
    /\ FilterN(p, MaxConstCalls)

NextConst ==
    \/ \E p \in Poses : FilterConst(p)
    \/ Advance

\* A filter() call is possible: the enabling condition of FilterConst.
FilterDue ==
    /\ ncalls < MaxConstCalls
    /\ first_run \/ timer > 0

\* The tracker keeps polling: weak fairness of the filter() calls,
\* WF_vars(\E p \in Poses : FilterConst(p)), with the enabling condition
\* written out.
Polling == []<>(~FilterDue) \/ []<><<ncalls' = ncalls + 1>>_vars

\* The clock keeps running and the tracker keeps polling.
SpecConst == Init /\ [][NextConst]_vars /\ WF_vars(Advance) /\ Polling

\* ------------------------------------------------------------------------
\* KalmanProcessNoiseScaler::update on its own
\* ------------------------------------------------------------------------

\* The innovations update() is given: none, small, ordinary, extreme.
Innovations ==
    {Pose(0, 0), Pose(Scale \div 10, 0), Pose(Scale, -3 * Scale),
     Pose(1000 * Scale, 0)}

ScaledIdentity(v) ==
    Mat(NUM_STATE_DOF, NUM_STATE_DOF, LAMBDA i, j : IF i = j THEN v ELSE 0)

\* The values of state_cov_prior update() is given: zero (as after reset),
\* the smallest positive, ordinary, extreme.
Priors ==
    {ScaledIdentity(0), ScaledIdentity(1), ScaledIdentity(Scale),
     ScaledIdentity(1000 * Scale)}

\* The intervals update() is given: none, one clock step, a long pause.
Intervals == {0, TimeStep, 10 * Scale}

\* A constructed filter whose kf holds a given innovation and state_cov_prior.
InitScaler ==
    /\ s \in Settings
    /\ \E o \in {FTNoIR_Filter(s)} : \E d \in Innovations : \E P \in Priors :
          /\ kf = [o.kf EXCEPT !.innovation = d, !.state_cov_prior = P]
          /\ kf_adaptive_process_noise_cov = o.kf_adaptive_process_noise_cov
          /\ dz_filter = o.dz_filter
          /\ last_input = o.last_input
          /\ first_run = o.first_run
          /\ dt_since_last_input = o.dt_since_last_input
          /\ prev_slider_pos = o.prev_slider_pos
          /\ minimal_state_var = o.minimal_state_var
          /\ timer = o.timer
    /\ output = VectorZero(NUM_MEASUREMENT_DOF)
    /\ call = NoCall
    /\ hist = <<>>
    /\ ncalls = 0
    /\ since_meas = 0
    /\ ksteps = 0

\* One call kf_adaptive_process_noise_cov.update(kf, dt).
ScalerUpdate(dt) ==
    /\ ncalls < MaxCalls
    /\ ncalls' = ncalls + 1
    /\ \E u \in {KalmanProcessNoiseScaler_update(
                     kf_adaptive_process_noise_cov, kf, dt)} :
          /\ kf' = u.kf
          /\ kf_adaptive_process_noise_cov' = u.scaler
          /\ call' = [NoCall EXCEPT !.alpha = u.alpha, !.kalman_dt = dt]
    /\ UNCHANGED <<dz_filter, last_input, first_run, dt_since_last_input,
                   prev_slider_pos, minimal_state_var, timer, s, output, hist,
                   since_meas, ksteps>>

NextScaler == \E dt \in Intervals : ScalerUpdate(dt)

SpecScaler == InitScaler /\ [][NextScaler]_vars

\* ------------------------------------------------------------------------
\* Vocabulary of the properties
\* ------------------------------------------------------------------------

Axes == 1..NUM_MEASUREMENT_DOF

ZeroPose == VectorZero(NUM_MEASUREMENT_DOF)

\* The step is a filter() call.
FilterStep == ncalls' = ncalls + 1

\* The next filter() call will find the sliders moved and reset.
Changed == sliders_changed(Self, s)

\* The matrix measurement_update inverted last (or will invert first).
InvertedMatrix ==
    MatAdd(MatMul(MatMul(kf.measurement_matrix, kf.state_cov_prior),
                  Transpose(kf.measurement_matrix)),
           kf.measurement_noise_cov)

\* Every matrix measurement_update inverts is diagonal with a positive
\* diagonal, which is what Inverse relies on.
InvertedMatrixIsDiagonal ==
    /\ IsDiagonal(InvertedMatrix)
    /\ \A i \in Axes : InvertedMatrix[i][i] > 0

\* ------------------------------------------------------------------------
\* C4
\* ------------------------------------------------------------------------

\* C4: the first filter() call after a reset (the constructor's or one a
\* slider change triggers in this very call) only restarts the timer and
\* clears first_run: it writes no output and the Kalman state, the scaler,
\* last_input, dt_since_last_input, minimal_state_var and the deadzone state
\* are as reset() left them.  Every later call up to the next reset writes
\* the output pose, the pose the deadzone filter returned.
WarmUpTickOnlyStartsTimer ==
    [][FilterStep =>
         /\ (first_run \/ Changed) =>
              /\ ~call'.wrote
              /\ output' = output
              /\ ~first_run'
              /\ timer' = 0
              /\ kf' = FTNoIR_Filter(s).kf
              /\ kf_adaptive_process_noise_cov'
                   = FTNoIR_Filter(s).kf_adaptive_process_noise_cov
              /\ last_input' = ZeroPose
              /\ dt_since_last_input' = 0
              /\ minimal_state_var' = VectorConstant(NUM_MEASUREMENT_DOF, DBL_MAX)
              /\ dz_filter' = [last_output |-> ZeroPose, dz_size |-> ZeroPose]
         /\ (~first_run /\ ~Changed) =>
              /\ call'.wrote
              /\ Len(output') = NUM_MEASUREMENT_DOF
              /\ output' = dz_filter'.last_output
              /\ ~first_run'
    ]_vars

\* A call that found the sliders moved after an earlier tick had written a
\* non-zero pose: it reset, returned from the warm-up branch and left the
\* output buffer alone.
WarmUpTickAfterOutput ==
    /\ call.reset
    /\ ~call.wrote
    /\ ~first_run
    /\ output # ZeroPose

\* ------------------------------------------------------------------------
\* C8
\* ------------------------------------------------------------------------

\* C8: a running tick whose input equals last_input on every axis runs no
\* Kalman step: every field of kf, the scaler (innovation_cov_estimate and
\* base_cov) and last_input are unchanged, and the pose handed to the
\* deadzone filter is the pose block of the unchanged kf.state, the same as
\* on the previous running tick.
NoNewInputSkipsKalmanStep ==
    [][(FilterStep /\ ~first_run /\ ~Changed /\ call'.input = last_input) =>
         /\ call'.running
         /\ ~call'.new_input
         /\ kf' = kf
         /\ kf_adaptive_process_noise_cov' = kf_adaptive_process_noise_cov
         /\ last_input' = last_input
         /\ call'.raw = head(kf.state, NUM_MEASUREMENT_DOF)
         /\ (call.running => call'.raw = call.raw)
    ]_vars

\* A tick without a new measurement, some time after a Kalman step that
\* left a non-zero estimate.
NoNewInputTickAfterKalmanStep ==
    /\ call.running
    /\ ~call.new_input
    /\ ksteps >= 1
    /\ dt_since_last_input > 0
    /\ head(kf.state, NUM_MEASUREMENT_DOF) # ZeroPose

\* ------------------------------------------------------------------------
\* C7
\* ------------------------------------------------------------------------

\* C7: on every running tick minimal_state_var becomes, per axis, the smaller
\* of its old value (the minimum so far since the reset, DBL_MAX at first)
\* and the tick's state_cov diagonal entry: it never increases, it is at
\* most the current variance, and dz_size is non-negative.
MinimalStateVarIsRunningMinimum ==
    [][(FilterStep /\ call'.running) =>
         \A i \in Axes :
            /\ minimal_state_var'[i]
                 = Min(minimal_state_var[i], kf'.state_cov[i][i])
            /\ minimal_state_var'[i] <= minimal_state_var[i]
            /\ minimal_state_var'[i] <= kf'.state_cov[i][i]
            /\ dz_filter'.dz_size[i] >= 0
    ]_vars

\* A running tick that left the variance of an axis above the minimum seen
\* since the reset, hence a positive deadzone.
VarianceAboveMinimum ==
    /\ call.running
    /\ \E i \in Axes :
          /\ minimal_state_var[i] < kf.state_cov[i][i]
          /\ dz_filter.dz_size[i] > 0

\* ------------------------------------------------------------------------
\* C9
\* ------------------------------------------------------------------------

\* C9: dt_since_last_input holds the time between the latest new-measurement
\* tick (the warm-up call when there has been none) and the latest call, so
\* with the timer's reading it is the clock time since that tick.  A
\* new-measurement tick runs the Kalman step with that accumulated time, not
\* with the interval of the tick, then zeroes dt_since_last_input and stores
\* the input in last_input; a tick without new measurement accumulates.
DtSinceLastInputAccumulates ==
    /\ [](dt_since_last_input + timer = since_meas)
    /\ [][(FilterStep /\ call'.running) =>
            IF call'.new_input
            THEN /\ \A i \in Axes :
                       kf'.transition_matrix[i][i + NUM_MEASUREMENT_DOF] = since_meas
                 /\ kf_adaptive_process_noise_cov'.base_cov
                      = fill_process_noise_cov_matrix(
                            kf_adaptive_process_noise_cov.base_cov, since_meas)
                 /\ call'.kalman_dt = since_meas
                 /\ dt_since_last_input' = 0
                 /\ last_input' = call'.input
            ELSE /\ dt_since_last_input' = since_meas
                 /\ last_input' = last_input
       ]_vars

\* A Kalman step whose sample interval is longer than any single interval
\* between two calls: it was accumulated over several ticks.
KalmanStepWithAccumulatedDt ==
    /\ call.new_input
    /\ call.kalman_dt > MaxElapsed
    /\ dt_since_last_input = 0

\* ------------------------------------------------------------------------
\* C1
\* ------------------------------------------------------------------------

\* C1, as claimed: after a reset and the warm-up tick, a second tick with the
\* input of the first does not register as a new measurement and runs no
\* Kalman step, and a third tick whose input differs from the second does
\* register, for every input pose.
SecondTickWithSameInputIsNotNew ==
    /\ (Len(hist) = 2 /\ hist[2] = hist[1]) =>
          /\ call.running
          /\ ~call.new_input
          /\ ksteps = 0
    /\ (Len(hist) = 3 /\ hist[3] # hist[2]) =>
          /\ call.running
          /\ call.new_input

\* C1, amended: the warm-up tick returns before it stores its input, so the
\* second tick is compared with the zero pose reset() left in last_input: a
\* second tick with the input of the first registers as a new measurement
\* (and runs a Kalman step) exactly when that input is not the zero pose.  A
\* third tick whose input differs from the second does register.
SecondTickIsNewUnlessZeroPose ==
    /\ (Len(hist) = 2 /\ hist[2] = hist[1]) =>
          /\ call.running
          /\ call.new_input = (hist[1] # ZeroPose)
          /\ ksteps = (IF hist[1] # ZeroPose THEN 1 ELSE 0)
    /\ (Len(hist) = 3 /\ hist[3] # hist[2]) =>
          /\ call.running
          /\ call.new_input

\* The same non-zero pose on the warm-up tick and on the second tick, then a
\* different pose: both running ticks ran a Kalman step.
SameNonZeroInputTwiceThenChange ==
    /\ Len(hist) = 3
    /\ hist[1] # ZeroPose
    /\ hist[2] = hist[1]
    /\ hist[3] # hist[2]
    /\ call.new_input
    /\ ksteps = 2

\* ------------------------------------------------------------------------
\* C3
\* ------------------------------------------------------------------------

\* C3: the filter() call that follows a slider change leaves the whole
\* filter object (kf, the scaler, last_input, dt_since_last_input,
\* minimal_state_var, first_run, prev_slider_pos, the deadzone state, the
\* timer) equal to that of a filter constructed under the new settings after
\* its own first filter() call, whatever ticks preceded the change.
ResetEquivalence ==
    [][(FilterStep /\ Changed) =>
         \E fresh \in {FTNoIR_Filter(s)} :
         \E after \in {filter(fresh, s, call'.input).self} :
            /\ call'.reset
            /\ Self' = after
    ]_vars

\* A slider change detected by a filter that had run two Kalman steps and
\* had opened a deadzone before.
ResetOfFilterWithDeadzone ==
    /\ call.reset
    /\ ~first_run
    /\ \E i \in Axes : call.dz_before[i] > 0
    /\ output # ZeroPose
    /\ dz_filter.dz_size = ZeroPose
    /\ prev_slider_pos = <<s.noise_pos_slider_value, s.noise_rot_slider_value>>

\* ------------------------------------------------------------------------
\* C6
\* ------------------------------------------------------------------------

\* C6: DeadzoneFilter::filter, on every running tick and per axis: with
\* dz_size 0 the output is the input (the pose do_kalman_filter returned);
\* with the input equal to last_output the output is last_output; and
\* last_output is the output after the call.
DeadzoneFilterPerAxis ==
    [][(FilterStep /\ call'.running) =>
         \A i \in Axes :
            /\ (dz_filter'.dz_size[i] = 0) => (output'[i] = call'.raw[i])
            /\ (call'.raw[i] = dz_filter.last_output[i])
                  => (output'[i] = dz_filter.last_output[i])
            /\ dz_filter'.last_output[i] = output'[i]
    ]_vars

\* A running tick with an open deadzone: one axis at rest (input equal to
\* last_output), another pulled only part of the way to its input.
DeadzoneHoldsAndAttenuates ==
    /\ call.running
    /\ \E i \in Axes :
          /\ dz_filter.dz_size[i] > 0
          /\ call.raw[i] = output[i]
    /\ \E j \in Axes :
          /\ dz_filter.dz_size[j] > 0
          /\ call.raw[j] # output[j]

\* ------------------------------------------------------------------------
\* C10
\* ------------------------------------------------------------------------

\* C10: a new-measurement tick runs the scaler's update, time_update and
\* measurement_update once each in that order: update reads the innovation
\* and state_cov_prior of the previous step, time_update predicts from the
\* previous state and state_cov with the process_noise_cov update has just
\* set, and measurement_update forms the innovation from that prediction.
\* On the first Kalman step after a reset T2 is 0, alpha is 0.001 and
\* process_noise_cov is 0.001 times base_cov for the accumulated interval.
KalmanStepOrder ==
    [][(FilterStep /\ call'.running /\ call'.new_input) =>
         \E dt \in {call'.kalman_dt} :
         \E f \in {Div(dt, dt + adaptivity_window_length)} :
         \E ddT \in {Outer(kf.innovation)} :
         \E old \in {MatScale(Scale - f,
                        kf_adaptive_process_noise_cov.innovation_cov_estimate)} :
         \E HP \in {MatMul(kf.measurement_matrix, kf.state_cov_prior)} :
         \E HT \in {Transpose(kf.measurement_matrix)} :
         \E T2 \in {Trace(MatMul(HP, HT))} :
         \E T1 \in {Trace(MatSub(
                        kf_adaptive_process_noise_cov'.innovation_cov_estimate,
                        kf.measurement_noise_cov))} :
         \E FP \in {MatMul(kf'.transition_matrix, kf.state_cov)} :
         \E FT \in {Transpose(kf'.transition_matrix)} :
         \E FPF \in {MatMul(FP, FT)} :
            \* update() ran on the innovation and the prior of the step before
            /\ kf_adaptive_process_noise_cov'.innovation_cov_estimate
                 = MatAdd(MatScale(f, ddT), old)
            /\ call'.alpha = ScalerAlpha(T1, T2)
            /\ kf'.process_noise_cov
                 = MatScale(call'.alpha, kf_adaptive_process_noise_cov'.base_cov)
            \* time_update() ran on the state before, with that process_noise_cov
            /\ kf'.state_prior = MatVec(kf'.transition_matrix, kf.state)
            /\ kf'.state_cov_prior = MatAdd(FPF, kf'.process_noise_cov)
            \* measurement_update() ran on that prediction
            /\ kf'.innovation
                 = VecSub(call'.input,
                          MatVec(kf'.measurement_matrix, kf'.state_prior))
            /\ kf'.state
                 = VecAdd(kf'.state_prior, MatVec(kf'.kalman_gain, kf'.innovation))
            /\ (ksteps = 0) =>
                 /\ T2 = 0
                 /\ call'.alpha = AlphaMin
                 /\ kf'.process_noise_cov
                      = MatScale(AlphaMin,
                                 fill_process_noise_cov_matrix(
                                     MatrixZero(NUM_STATE_DOF, NUM_STATE_DOF), dt))
    ]_vars

\* A second Kalman step after a reset whose scale factor, computed from the
\* innovation and the prior of the first, is above the minimum.
SecondKalmanStepAdapts ==
    /\ call.new_input
    /\ ksteps = 2
    /\ call.alpha > AlphaMin
    /\ call.kalman_dt > 0

\* ------------------------------------------------------------------------
\* C2
\* ------------------------------------------------------------------------

\* Within epsilon: 0.01 per axis.
Epsilon == Scale \div 100

Near(u, v) == \A i \in 1..Len(u) : Abs(u[i] - v[i]) <= Epsilon

\* C2, as claimed, in the form a finite run refutes.  The claim: under a
\* constant input pose on every tick after a reset, with non-zero time
\* between the ticks, the output is eventually within epsilon of that pose
\* and stays there, with dz_size zero on every axis.  A tick that repeats the
\* input and leaves kf, the scaler, last_input, minimal_state_var, the
\* deadzone state and the output as it found them is repeated unchanged by
\* every later tick of that input, so the filter would have to be at rest
\* only where the claim holds: within epsilon of the input, dz_size zero.
ConstantInputRestsAtInput ==
    [][(/\ FilterStep
        /\ call.running
        /\ call'.running
        /\ call'.input = call.input
        /\ kf' = kf
        /\ kf_adaptive_process_noise_cov' = kf_adaptive_process_noise_cov
        /\ last_input' = last_input
        /\ minimal_state_var' = minimal_state_var
        /\ dz_filter' = dz_filter
        /\ output' = output)
       => (/\ Near(output', call'.input)
           /\ dz_filter'.dz_size = ZeroPose)
    ]_vars

\* C2, amended: under a constant input pose the filter runs at most one
\* Kalman step, on the first running tick and only when the pose is not the
\* zero pose; every later tick finds its input equal to last_input, runs no
\* step and leaves kf and the output as they are.  So the output stays at
\* the estimate of that one step (the zero pose for the zero pose) and comes
\* no nearer to the input, and dz_size is zero on every axis on every
\* running tick.
ConstantInputRunsOneKalmanStep ==
    /\ [](call.running =>
            /\ ksteps = (IF hist[1] # ZeroPose THEN 1 ELSE 0)
            /\ output = head(kf.state, NUM_MEASUREMENT_DOF)
            /\ (hist[1] = ZeroPose) => (output = ZeroPose)
            /\ dz_filter.dz_size = ZeroPose)
    /\ [][(FilterStep /\ call.running) =>
            /\ ~call'.new_input
            /\ kf' = kf
            /\ output' = output
       ]_vars

\* The fifth tick of a constant non-zero pose: the output is still not
\* within epsilon of it.
ConstantInputNotReached ==
    /\ call.running
    /\ Len(hist) >= 5
    /\ hist[1] # ZeroPose
    /\ ksteps = 1
    /\ ~Near(output, hist[1])

\* ------------------------------------------------------------------------
\* C5
\* ------------------------------------------------------------------------

\* C5: every call of KalmanProcessNoiseScaler::update, whatever the
\* innovation, measurement_noise_cov, state_cov_prior and dt >= 0, uses a
\* scale factor alpha in [0.001, 1000]: sqrt(T1 / T2) clamped to that
\* interval when T1 > 0 and T2 > 0, and 0.001 otherwise; and it sets
\* process_noise_cov to alpha times base_cov.
AlphaIsClampedRatio ==
    [][(ncalls' = ncalls + 1) =>
         \E HP \in {MatMul(kf.measurement_matrix, kf.state_cov_prior)} :
         \E HT \in {Transpose(kf.measurement_matrix)} :
         \E T2 \in {Trace(MatMul(HP, HT))} :
         \E T1 \in {Trace(MatSub(
                        kf_adaptive_process_noise_cov'.innovation_cov_estimate,
                        kf.measurement_noise_cov))} :
         \E alpha \in {call'.alpha} :
            /\ alpha >= Scale \div 1000
            /\ alpha <= 1000 * Scale
            /\ (T1 > 0 /\ T2 > 0) =>
                  alpha = Min(1000 * Scale,
                              Max(Scale \div 1000, Sqrt(Div(T1, T2))))
            /\ ~(T1 > 0 /\ T2 > 0) => alpha = Scale \div 1000
            /\ kf'.process_noise_cov
                 = MatScale(alpha, kf_adaptive_process_noise_cov.base_cov)
    ]_vars

\* An update whose ratio of traces is beyond the range: alpha is the upper
\* limit.
AlphaAtUpperLimit ==
    /\ ncalls >= 1
    /\ call.alpha = AlphaMax
    /\ kf.process_noise_cov
         = MatScale(AlphaMax, kf_adaptive_process_noise_cov.base_cov)

====
